---- MODULE Spec2Model ----
(***************************************************************************)
(* Debtor-notification app (src/app.py): schema inference, debt selection, *)
(* the dispatch loop with its monitoring ledger, and the dashboard's       *)
(* ledger edits.                                                           *)
(*                                                                         *)
(* Text.  A Python str is a sequence of one-character tokens.  Latin       *)
(* characters stand for themselves; a Cyrillic letter is written as its    *)
(* transliteration followed by "~" ("d~" is the letter de, "D~" its        *)
(* capital), so distinct characters stay distinct.  "NBSP" is U+00A0.      *)
(* Python's None is NoneVal and a pandas missing value is NaN: one-token   *)
(* sequences whose token is not a character.                               *)
(***************************************************************************)
EXTENDS Integers, Sequences, FiniteSets, TLC

VARIABLES
  calc,        \* a pure computation being verified: [op, done, in, out]
  store,       \* debtors_monitoring.csv: [exists, rows]
  active,      \* the browser sessions running the script
  pc,          \* where each session's script run stands
  call,        \* the arguments of the session's add_to_monitoring call
  seen,        \* the file as the session last read it
  amon_df,     \* add_to_monitoring's df (lines 29 and 38)
  new_entry,   \* the entry the session built last (lines 30 and 593)
  df_monitor,  \* the dashboard's df_monitor (line 523)
  audit,       \* history: entries written, entries the operator deleted, entries a filter hid at a save
  ui,          \* the widget values the dispatch run has read
  debtors,     \* the rows selected for dispatch (line 294)
  idx,         \* the loop's idx: rows processed so far
  log_rows,    \* the outcomes recorded so far
  ok,          \* rows counted as sent
  fail,        \* rows counted as failed
  progress,    \* what the progress bar was last given: <<idx, total>>
  effects,     \* the run's calls of send_email_smtp and time.sleep, in order
  ledger0,     \* the file as it was when the run began
  halt         \* why the run stopped before the loop, if it did

ledgerVars == <<active, pc, call, seen, amon_df, new_entry, df_monitor, audit>>
runVars == <<ui, debtors, idx, log_rows, ok, fail, progress, effects, ledger0, halt>>
appVars == <<ledgerVars, runVars>>
vars == <<calc, store, appVars>>

----------------------------------------------------------------------------
(* Bounds of the model *)

MaxCols == 3      \* columns of an uploaded table (schema inference)
MaxTable == 3     \* rows of an uploaded table (debtor selection)
MaxEntries == 3   \* entries of a ledger saved and loaded back
MaxLedger == 2    \* entries the store may hold before further appends are held back

----------------------------------------------------------------------------
(* Python values and str operations *)

NoneVal == <<"<None>">>
NaN == <<"<NaN>">>

Min(S) == CHOOSE x \in S : \A y \in S : x <= y
Max(S) == CHOOSE x \in S : \A y \in S : x >= y

\* bool(x) for a str or None
Truthy(x) == x # NoneVal /\ x # <<>>

UPPER ==
  <<"A", "B", "C", "D", "E", "F", "G", "H", "I", "J", "K", "L", "M", "N", "O", "P", "Q", "R",
    "S", "T", "U", "V", "W", "X", "Y", "Z", "A~", "B~", "V~", "G~", "D~", "E~", "Yo~", "Zh~",
    "Z~", "I~", "J~", "K~", "L~", "M~", "N~", "O~", "P~", "R~", "S~", "T~", "U~", "F~", "H~",
    "C~", "Ch~", "Sh~", "Sch~", "Hard~", "Y~", "Soft~", "Eh~", "Yu~", "Ya~">>
LOWER ==
  <<"a", "b", "c", "d", "e", "f", "g", "h", "i", "j", "k", "l", "m", "n", "o", "p", "q", "r",
    "s", "t", "u", "v", "w", "x", "y", "z", "a~", "b~", "v~", "g~", "d~", "e~", "yo~", "zh~",
    "z~", "i~", "j~", "k~", "l~", "m~", "n~", "o~", "p~", "r~", "s~", "t~", "u~", "f~", "h~",
    "c~", "ch~", "sh~", "sch~", "hard~", "y~", "soft~", "eh~", "yu~", "ya~">>

ALIASES ==
   "Lichnyj schet" :> <<
       <<"l~","i~","ch~","n~","y~","j~"," ","s~","ch~","e~","t~">>,
       <<"l~","i~","c~","e~","v~","o~","j~"," ","s~","ch~","e~","t~">>,
       <<"l~","/","s~">>,
       <<"l~","s~">>,
       <<"a","c","c","o","u","n","t">>,
       <<"s~","ch~","e~","t~">>>>
  @@ "FIO" :> <<
       <<"f~","i~","o~">>,
       <<"f~",".","i~",".","o~">>,
       <<"f~","a~","m~","i~","l~","i~","ya~"," ","i~","m~","ya~"," ","o~","t~","ch~","e~","s~","t~","v~","o~">>,
       <<"n","a","m","e">>,
       <<"f~","a~","m~","i~","l~","i~","ya~">>>>
  @@ "Adres" :> <<
       <<"a~","d~","r~","e~","s~">>,
       <<"a","d","d","r","e","s","s">>,
       <<"m~","e~","s~","t~","o~"," ","p~","r~","o~","zh~","i~","v~","a~","n~","i~","ya~">>,
       <<"k~","v~","a~","r~","t~","i~","r~","a~">>,
       <<"d~","o~","m~">>>>
  @@ "Period poslednej oplaty" :> <<
       <<"p~","e~","r~","i~","o~","d~"," ","p~","o~","s~","l~","e~","d~","n~","e~","j~"," ","o~","p~","l~","a~","t~","y~">>,
       <<"p~","o~","s~","l~","e~","d~","n~","ya~","ya~"," ","o~","p~","l~","a~","t~","a~">>,
       <<"d~","a~","t~","a~"," ","p~","o~","s~","l~","e~","d~","n~","e~","j~"," ","o~","p~","l~","a~","t~","y~">>,
       <<"l","a","s","t"," ","p","a","y","m","e","n","t">>>>
  @@ "Nachisleniya" :> <<
       <<"n~","a~","ch~","i~","s~","l~","e~","n~","i~","ya~">>,
       <<"a","c","c","r","u","a","l">>,
       <<"n~","a~","ch~","i~","s~","l~","e~","n~","o~">>>>
  @@ "Summa lgot" :> <<
       <<"s~","u~","m~","m~","a~"," ","l~","soft~","g~","o~","t~">>,
       <<"l~","soft~","g~","o~","t~","y~">>,
       <<"b","e","n","e","f","i","t">>,
       <<"s~","k~","i~","d~","k~","a~">>>>
  @@ "Vystavleno k oplate" :> <<
       <<"v~","y~","s~","t~","a~","v~","l~","e~","n~","o~"," ","k~"," ","o~","p~","l~","a~","t~","e~">>,
       <<"k~"," ","o~","p~","l~","a~","t~","e~">>,
       <<"i~","t~","o~","g~","o~"," ","k~"," ","o~","p~","l~","a~","t~","e~">>,
       <<"t","o"," ","p","a","y">>,
       <<"n~","a~","ch~","i~","s~","l~","e~","n~","o~"," ","k~"," ","o~","p~","l~","a~","t~","e~">>>>
  @@ "Summa dolga" :> <<
       <<"s~","u~","m~","m~","a~"," ","d~","o~","l~","g~","a~">>,
       <<"d~","o~","l~","g~">>,
       <<"z~","a~","d~","o~","l~","zh~","e~","n~","n~","o~","s~","t~","soft~">>,
       <<"d","e","b","t">>,
       <<"a","r","r","e","a","r","s">>>>
  @@ "Penni" :> <<
       <<"p~","e~","n~","n~","i~">>,
       <<"p~","e~","n~","i~">>,
       <<"p~","e~","n~","ya~">>,
       <<"p","e","n","a","l","t","y">>,
       <<"sh~","t~","r~","a~","f~">>>>
  @@ "Data dolga" :> <<
       <<"d~","a~","t~","a~"," ","d~","o~","l~","g~","a~">>,
       <<"d~","a~","t~","a~"," ","z~","a~","d~","o~","l~","zh~","e~","n~","n~","o~","s~","t~","i~">>,
       <<"d","e","b","t"," ","d","a","t","e">>,
       <<"d~","a~","t~","a~"," ","o~","b~","r~","a~","z~","o~","v~","a~","n~","i~","ya~"," ","d~","o~","l~","g~","a~">>>>
  @@ "Email" :> <<
       <<"e","m","a","i","l">>,
       <<"e","-","m","a","i","l">>,
       <<"eh~","l~","e~","k~","t~","r~","o~","n~","n~","a~","ya~"," ","p~","o~","ch~","t~","a~">>,
       <<"p~","o~","ch~","t~","a~">>,
       <<"m","a","i","l">>>>

\* str.lower(), one character
LowerOf == [c \in {UPPER[i] : i \in 1..Len(UPPER)} |->
              LOWER[CHOOSE i \in 1..Len(UPPER) : UPPER[i] = c]]

LowerChar(c) == IF c \in DOMAIN LowerOf THEN LowerOf[c] ELSE c

lower(s) == [i \in 1..Len(s) |-> LowerChar(s[i])]

\* \s of the re module
IsSpace(c) == c \in {" ", "\t", "\n", "NBSP"}

\* str.strip()
strip(s) ==
  LET ink == {i \in 1..Len(s) : ~IsSpace(s[i])}
  IN IF ink = {} THEN <<>> ELSE SubSeq(s, Min(ink), Max(ink))

\* needle in hay
Contains(hay, needle) ==
  \E i \in 0..(Len(hay) - Len(needle)) : SubSeq(hay, i + 1, i + Len(needle)) = needle

\* the characters of s at the positions in I, in order
RECURSIVE Pick(_, _, _)
Pick(s, I, i) ==
  IF i > Len(s) THEN <<>>
  ELSE (IF i \in I THEN <<s[i]>> ELSE <<>>) \o Pick(s, I, i + 1)

\* str.replace(old, new) for a one-character old; new is a str
RECURSIVE replace(_, _, _)
replace(s, old, new) ==
  IF s = <<>> THEN <<>>
  ELSE (IF Head(s) = old THEN new ELSE <<Head(s)>>) \o replace(Tail(s), old, new)

----------------------------------------------------------------------------
(* Schema inference: _clean_col and auto_map_columns *)

REQUIRED_FIELDS ==
  <<"Lichnyj schet", "FIO", "Adres", "Period poslednej oplaty", "Nachisleniya",
    "Summa lgot", "Vystavleno k oplate", "Summa dolga", "Penni", "Data dolga", "Email">>

\* [\s\._\-]
IsSeparator(c) == IsSpace(c) \/ c \in {".", "_", "-"}

\* re.sub(r"[\s\._\-]+", " ", s): every maximal run of separators becomes one space
SubSeparators(s) ==
  LET firsts == {i \in 1..Len(s) : ~(IsSeparator(s[i]) /\ i > 1 /\ IsSeparator(s[i - 1]))}
      spaced == [i \in 1..Len(s) |-> IF IsSeparator(s[i]) THEN " " ELSE s[i]]
  IN Pick(spaced, firsts, 1)

clean_col(s) == SubSeparators(lower(strip(s)))

\* cols_clean = {c: _clean_col(c) for c in df.columns}: the keys, first occurrence kept
DictKeys(columns) ==
  Pick(columns, {i \in 1..Len(columns) : \A j \in 1..(i - 1) : columns[j] # columns[i]}, 1)

\* for v in variants: if _clean_col(v) in cc: found = col; break
RECURSIVE ScanVariants(_, _, _, _, _)
ScanVariants(variants, k, cc, col, found) ==
  IF k > Len(variants) THEN found
  ELSE IF Contains(cc, clean_col(variants[k])) THEN col
  ELSE ScanVariants(variants, k + 1, cc, col, found)

\* A plausible slip: the aliases are scanned in the outer loop, so the best alias
\* wins instead of the first column.
RECURSIVE ScanAliasMajor(_, _, _, _)
ScanAliasMajor(keys, k, variants, found) ==
  IF k > Len(variants) THEN found
  ELSE LET hits == {i \in 1..Len(keys) : Contains(clean_col(keys[i]), clean_col(variants[k]))}
       IN IF hits # {} THEN keys[Min(hits)] ELSE ScanAliasMajor(keys, k + 1, variants, found)

ScanColumnsAliasMajor(keys, i, variants, found) == ScanAliasMajor(keys, i, variants, found)

\* for col, cc in cols_clean.items(): <scan the variants>; if found: break
RECURSIVE ScanColumns(_, _, _, _)
ScanColumns(keys, i, variants, found) ==
  IF i > Len(keys) THEN found
  ELSE LET f == ScanVariants(variants, 1, clean_col(keys[i]), keys[i], found)
       IN IF Truthy(f) THEN f ELSE ScanColumns(keys, i + 1, variants, f)

auto_map_columns(columns) ==
  [field \in DOMAIN ALIASES |-> ScanColumns(DictKeys(columns), 1, ALIASES[field], NoneVal)]

----------------------------------------------------------------------------
(* Numbers.  A float is <<m, e>>, the decimal m / 10^e with e the least possible. *)

RECURSIVE Canon(_, _)
Canon(m, e) ==
  IF e > 0 /\ m % 10 = 0 THEN Canon(m \div 10, e - 1) ELSE <<m, e>>

Zero == Canon(0, 0)
Mant(x) == x[1]
Expo(x) == x[2]
NumGt0(x) == Mant(x) > 0
NumGe0(x) == Mant(x) >= 0

\* Cells of a table read by pandas: a missing value, a native number, or text.
CellNaN == [k |-> "nan", v |-> Zero, s |-> <<>>]
CellNum(m, e) == [k |-> "num", v |-> Canon(m, e), s |-> <<>>]
CellStr(s) == [k |-> "str", v |-> Zero, s |-> s]

DIGITS == <<"0", "1", "2", "3", "4", "5", "6", "7", "8", "9">>
IsDigit(c) == \E i \in 1..Len(DIGITS) : DIGITS[i] = c
DigitVal(c) == (CHOOSE i \in 1..Len(DIGITS) : DIGITS[i] = c) - 1

RECURSIVE IntOf(_)
IntOf(ds) ==
  IF ds = <<>> THEN 0
  ELSE IntOf(SubSeq(ds, 1, Len(ds) - 1)) * 10 + DigitVal(ds[Len(ds)])

\* float(s) for a str of digits, "." and "-": [ok, v]; ok = FALSE is ValueError
float_str(s) ==
  LET neg == s # <<>> /\ Head(s) = "-"
      body == IF neg THEN Tail(s) ELSE s
      dots == {i \in 1..Len(body) : body[i] = "."}
      digs == Pick(body, {i \in 1..Len(body) : IsDigit(body[i])}, 1)
      wellformed == /\ \A i \in 1..Len(body) : body[i] # "-"
                    /\ Cardinality(dots) <= 1
                    /\ digs # <<>>
      e == IF dots = {} THEN 0 ELSE Len(body) - Min(dots)
      m == IntOf(digs)
  IN IF wellformed THEN [ok |-> TRUE, v |-> Canon(IF neg THEN 0 - m ELSE m, e)]
     ELSE [ok |-> FALSE, v |-> Zero]

\* re.sub(r"[^0-9\.\-]", "", s)
NumericChars(s) == Pick(s, {i \in 1..Len(s) : IsDigit(s[i]) \/ s[i] \in {".", "-"}}, 1)

to_number(x) ==
  IF x.k = "nan" THEN Zero
  ELSE IF x.k = "num" THEN x.v
  ELSE LET s1 == replace(x.s, "NBSP", <<" ">>)
           s2 == replace(s1, " ", <<>>)
           s3 == replace(s2, ",", <<".">>)
           s4 == NumericChars(s3)
       IN IF s4 \in {<<>>, <<".">>, <<"-">>, <<"-", ".">>, <<".", "-">>} THEN Zero
          ELSE IF float_str(s4).ok THEN float_str(s4).v
          ELSE Zero

----------------------------------------------------------------------------
(* Debtor selection (lines 289-294).  A DataFrame is a sequence of rows,  *)
(* each [index, row] with row a function from column name to cell; a      *)
(* filter keeps the index labels.                                          *)

\* df["_debt"] = df[debt_col].apply(to_number)
DebtColumn(df, debt_col) == [i \in 1..Len(df) |-> to_number(df[i].row[debt_col])]

\* A plausible slip: >= 0 for > 0
MaskNonNegative(debt) == {i \in DOMAIN debt : NumGe0(debt[i])}

\* the boolean mask df["_debt"] > 0
MaskPositive(debt) == {i \in DOMAIN debt : NumGt0(debt[i])}

RECURSIVE TakeRows(_, _, _, _)
TakeRows(df, debt, mask, i) ==
  IF i > Len(df) THEN <<>>
  ELSE (IF i \in mask
        THEN <<[index |-> df[i].index, row |-> df[i].row, debt |-> debt[i]]>>
        ELSE <<>>) \o TakeRows(df, debt, mask, i + 1)

\* debtors = df[df["_debt"] > 0].copy()
SelectDebtors(df, debt_col) ==
  LET debt == DebtColumn(df, debt_col)
  IN TakeRows(df, debt, MaskPositive(debt), 1)

\* pd.DataFrame of a list of rows: the index is 0..n-1
DataFrame(rows) == [i \in 1..Len(rows) |-> [index |-> i - 1, row |-> rows[i]]]

----------------------------------------------------------------------------
(* The monitoring store: debtors_monitoring.csv read and written by pandas.  *)
(* A ledger DataFrame is a sequence of entries [ts, fio, debt, method,       *)
(* status, comment]: text or NaN, debt a number or NaN.  The file holds one  *)
(* row of text cells per entry.                                              *)

NoFile == [exists |-> FALSE, rows |-> <<>>]

\* Texts pandas.read_csv reads as a missing value (its default na_values)
NA_VALUES ==
  { <<>>, <<"N","A">>, <<"N","/","A">>, <<"n","/","a">>, <<"n","a","n">>, <<"N","a","N">>,
    <<"n","u","l","l">>, <<"N","U","L","L">>, <<"N","o","n","e">> }

RECURSIVE DigitsOf(_)
DigitsOf(n) == IF n < 10 THEN <<DIGITS[n + 1]>> ELSE DigitsOf(n \div 10) \o <<DIGITS[(n % 10) + 1]>>

RECURSIVE Pow10(_)
Pow10(e) == IF e = 0 THEN 1 ELSE 10 * Pow10(e - 1)

RECURSIVE ZeroPad(_, _)
ZeroPad(ds, n) == IF Len(ds) >= n THEN ds ELSE ZeroPad(<<"0">> \o ds, n)

\* repr of a float, as DataFrame.to_csv writes it: 100.0, 200.5, -0.25
float_repr(x) ==
  LET a == IF Mant(x) < 0 THEN 0 - Mant(x) ELSE Mant(x)
      whole == DigitsOf(a \div Pow10(Expo(x)))
      frac == IF Expo(x) = 0 THEN <<"0">>
              ELSE ZeroPad(DigitsOf(a % Pow10(Expo(x))), Expo(x))
  IN (IF Mant(x) < 0 THEN <<"-">> ELSE <<>>) \o whole \o <<".">> \o frac

\* DataFrame.to_csv, one cell: a missing value is written as the empty text
to_csv_text(v) == IF v = NaN THEN <<>> ELSE v
to_csv_float(v) == IF v = NaN THEN <<>> ELSE float_repr(v)

\* pandas.read_csv, one cell
read_csv_text(t) == IF t \in NA_VALUES THEN NaN ELSE t
read_csv_float(t) == IF t \in NA_VALUES \/ ~float_str(t).ok THEN NaN ELSE float_str(t).v

to_csv(df) ==
  [i \in 1..Len(df) |->
     [ts |-> to_csv_text(df[i].ts), fio |-> to_csv_text(df[i].fio),
      debt |-> to_csv_float(df[i].debt), method |-> to_csv_text(df[i].method),
      status |-> to_csv_text(df[i].status), comment |-> to_csv_text(df[i].comment)]]

read_csv(rows) ==
  [i \in 1..Len(rows) |->
     [ts |-> read_csv_text(rows[i].ts), fio |-> read_csv_text(rows[i].fio),
      debt |-> read_csv_float(rows[i].debt), method |-> read_csv_text(rows[i].method),
      status |-> read_csv_text(rows[i].status), comment |-> read_csv_text(rows[i].comment)]]

\* load_monitoring_data(): the file's rows, or an empty frame when there is no file
load_monitoring_data(file) == IF file.exists THEN read_csv(file.rows) ELSE <<>>

\* save_monitoring_data(df): the file is overwritten
save_monitoring_data(df) == [exists |-> TRUE, rows |-> to_csv(df)]

Entry(ts, fio, debt, method, status, comment) ==
  [ts |-> ts, fio |-> fio, debt |-> debt, method |-> method, status |-> status,
   comment |-> comment]

\* A plausible slip: the new frame replaces the old one
ConcatReplacing(frame, entry) == <<entry>>

\* pd.concat([df, pd.DataFrame([new_entry])], ignore_index=True)
concat(frame, entry) == Append(frame, entry)

----------------------------------------------------------------------------
(* Texts of the program and of the inputs the model draws *)

\* "E-mail"
METHOD_EMAIL == <<"E","-","m","a","i","l">>
\* "Zvonok": a phone call
METHOD_CALL == <<"Z~","v~","o~","n~","o~","k~">>
\* "Dostavleno (avto)": delivered automatically
STATUS_AUTO ==
  <<"D~","o~","s~","t~","a~","v~","l~","e~","n~","o~"," ","(","a~","v~","t~","o~",")">>
\* "Ozhidaetsya": pending
STATUS_PENDING == <<"O~","zh~","i~","d~","a~","e~","t~","s~","ya~">>
\* "Oplacheno": paid
STATUS_PAID == <<"O~","p~","l~","a~","ch~","e~","n~","o~">>
\* "Otpravleno na ": the prefix of the dispatch loop's comment
SENT_TO == <<"O~","t~","p~","r~","a~","v~","l~","e~","n~","o~"," ","n~","a~"," ">>

\* datetime.now().strftime("%d.%m.%Y %H:%M"): the clock readings the model draws
NOW_TEXTS ==
  { <<"0","1",".","1","1",".","2","0","2","6"," ","1","0",":","0","0">> }

\* Names, addresses and comments the operator or the table supplies
IVANOV == <<"I","v","a","n","o","v">>
PETROV == <<"P","e","t","r","o","v">>
ADDR_IVANOV == <<"i","v","@","x",".","r","u">>
ADDR_NO_AT == <<"p","e","t","r","o","v",".","x",".","r","u">>
ADDR_COMMON == <<"o","p","s","@","x",".","r","u">>
COMMENT_CALLED == <<"c","a","l","l","e","d">>

\* The columns of the uploaded table
COL_FIO == <<"N","a","m","e">>
COL_DEBT == <<"D","e","b","t">>
COL_EMAIL == <<"E","-","m","a","i","l">>

----------------------------------------------------------------------------
(* Sessions.  Streamlit runs the script top to bottom, in a thread of its   *)
(* own per browser session, on every interaction; at most one button is     *)
(* pressed in a run.  Steps that touch the store are separate actions.      *)

Sessions == {"s1", "s2"}

\* No pure computation is being verified
Idle == [op |-> "none", done |-> TRUE, in |-> <<>>, out |-> <<>>]

NoEntry == Entry(NaN, NaN, NaN, NaN, NaN, NaN)
NoCall == [fio |-> <<>>, debt |-> Zero, method |-> <<>>, status |-> <<>>, comment |-> <<>>,
           ret |-> "idle"]
NoAudit == [written |-> {}, deleted |-> {}, hidden |-> {}]

Range(f) == {f[i] : i \in DOMAIN f}

\* The radio's two options (line 269)
MODE_PER_ROW == "Email of each row"
MODE_COMMON == "one common Email"

\* st.selectbox left at "not chosen" for every field
NoMap == [f \in {"FIO", "Summa dolga", "Email"} |-> NoneVal]
NoSmtp == [smtp_host |-> <<>>, from_addr |-> <<>>, smtp_user |-> <<>>, smtp_password |-> <<>>]

\* The widgets before the run has read any of them
NoWidgets ==
  [uploaded |-> FALSE, df_raw |-> <<>>, col_map |-> NoMap, mode |-> MODE_PER_ROW,
   common_email |-> NoneVal, template |-> <<>>, smtp |-> NoSmtp, dry_run |-> FALSE,
   send_btn |-> FALSE]

RunInit ==
  /\ ui = NoWidgets
  /\ debtors = <<>>
  /\ idx = 0
  /\ log_rows = <<>>
  /\ ok = 0
  /\ fail = 0
  /\ progress = <<0, 0>>
  /\ effects = <<>>
  /\ ledger0 = store
  /\ halt = "none"

LedgerInit(sessions) ==
  /\ active = sessions
  /\ pc = [s \in Sessions |-> "idle"]
  /\ call = [s \in Sessions |-> NoCall]
  /\ seen = [s \in Sessions |-> NoFile]
  /\ amon_df = [s \in Sessions |-> <<>>]
  /\ new_entry = [s \in Sessions |-> NoEntry]
  /\ df_monitor = [s \in Sessions |-> <<>>]
  /\ audit = NoAudit
  /\ RunInit

\* The history after a write: what the ledger now reads as has been written
Written(after) == [audit EXCEPT !.written = @ \cup Range(load_monitoring_data(after))]

\* The session is running and its script stands at the place
At(s, place) == s \in active /\ pc[s] = place

(* add_to_monitoring, lines 29-38: load, build new_entry, concat.  The      *)
(* ledger of the model holds MaxLedger entries at most.                     *)
AmonLoad(s) ==
  /\ At(s, "amon_load")
  /\ Len(store.rows) < MaxLedger
  /\ \E now \in NOW_TEXTS :
       LET e == Entry(now, call[s].fio, call[s].debt, call[s].method, call[s].status,
                      call[s].comment)
       IN /\ new_entry' = [new_entry EXCEPT ![s] = e]
          /\ amon_df' = [amon_df EXCEPT ![s] = concat(load_monitoring_data(store), e)]
  /\ seen' = [seen EXCEPT ![s] = store]
  /\ pc' = [pc EXCEPT ![s] = "amon_save"]
  /\ UNCHANGED <<calc, runVars, store, active, call, df_monitor, audit>>

(* add_to_monitoring, line 39: save; the call returns and its locals go *)
AmonSave(s) ==
  /\ At(s, "amon_save")
  /\ store' = save_monitoring_data(amon_df[s])
  /\ audit' = Written(store')
  /\ pc' = [pc EXCEPT ![s] = call[s].ret]
  /\ call' = [call EXCEPT ![s] = NoCall]
  /\ seen' = [seen EXCEPT ![s] = NoFile]
  /\ amon_df' = [amon_df EXCEPT ![s] = <<>>]
  /\ new_entry' = [new_entry EXCEPT ![s] = NoEntry]
  /\ UNCHANGED <<calc, runVars, active, df_monitor>>

\* The row a real send has succeeded for: name and debt
SENT_ROWS == {<<IVANOV, Canon(100, 0)>>}

(* Lines 448-466 as the ledger sees them: a real send has returned and the  *)
(* loop calls add_to_monitoring with the row's name and debt.               *)
SendSucceeded(s) ==
  /\ At(s, "idle")
  /\ Len(store.rows) < MaxLedger
  /\ \E who \in SENT_ROWS :
       call' = [call EXCEPT ![s] =
                  [fio |-> who[1], debt |-> who[2], method |-> METHOD_EMAIL,
                   status |-> STATUS_AUTO, comment |-> SENT_TO \o ADDR_COMMON,
                   ret |-> "idle"]]
  /\ pc' = [pc EXCEPT ![s] = "amon_load"]
  /\ UNCHANGED <<calc, runVars, store, active, seen, amon_df, new_entry, df_monitor, audit>>

(* Line 523: the dashboard loads the ledger *)
DashLoad(s) ==
  /\ At(s, "idle")
  /\ df_monitor' = [df_monitor EXCEPT ![s] = load_monitoring_data(store)]
  /\ pc' = [pc EXCEPT ![s] = "dash"]
  /\ UNCHANGED <<calc, runVars, store, active, call, seen, amon_df, new_entry, audit>>

\* Lines 543-547: display_df.  str.contains(search_fio, case=False) and isin.
DisplayDf(frame, search_fio, filter_status) ==
  LET ByName(e) == Contains(lower(e.fio), lower(search_fio))
      ByStatus(e) == e.status \in filter_status
      d1 == IF Truthy(search_fio) THEN SelectSeq(frame, ByName) ELSE frame
  IN IF filter_status # {} THEN SelectSeq(d1, ByStatus) ELSE d1

\* st.data_editor(frame, num_rows="dynamic"): the frame less the rows the operator deleted
data_editor(frame, deleted_rows) == Pick(frame, (1..Len(frame)) \ deleted_rows, 1)

\* The multiselect's choices: no status filter, or one of the statuses in the ledger
StatusChoices(frame) == {{}} \cup {{e.status} : e \in Range(frame)}

\* The operator deletes no row or one row of the editor before saving
RowChoices(frame) == {{}} \cup {{i} : i \in DOMAIN frame}

\* The operator's search texts
SEARCHES == {<<>>, <<"i","v","a","n">>}

\* The history after an editor save of edited_df, made from the rows shown of df_monitor
Edited(s, shown, deleted_rows, after) ==
  [written |-> audit.written \cup Range(load_monitoring_data(after)),
   deleted |-> audit.deleted \cup {shown[i] : i \in deleted_rows},
   hidden |-> audit.hidden \cup (Range(df_monitor[s]) \ Range(shown))]

(* Lines 543-573: the filtered editor and its save button *)
SaveFiltered(s) ==
  /\ At(s, "dash")
  /\ df_monitor[s] # <<>>
  /\ \E search_fio \in SEARCHES,
        filter_status \in StatusChoices(df_monitor[s]) :
       LET display_df == DisplayDf(df_monitor[s], search_fio, filter_status)
       IN \E deleted_rows \in RowChoices(display_df) :
            LET edited_df == data_editor(display_df, deleted_rows)
            IN /\ store' = save_monitoring_data(edited_df)
               /\ audit' = Edited(s, display_df, deleted_rows, store')
  /\ pc' = [pc EXCEPT ![s] = "idle"]
  /\ df_monitor' = [df_monitor EXCEPT ![s] = <<>>]
  /\ UNCHANGED <<calc, runVars, active, call, seen, amon_df, new_entry>>

\* The manual form's inputs: a name (the form refuses an empty one) and a comment
FORM_INPUTS == {<<PETROV, <<>>>>}

(* Lines 591-603: the manual form appends to df_monitor and saves it *)
FormAdd(s) ==
  /\ At(s, "dash")
  /\ Len(df_monitor[s]) < MaxLedger
  /\ \E input \in FORM_INPUTS, now \in NOW_TEXTS :
       LET e == Entry(now, input[1], Zero, METHOD_CALL, STATUS_PENDING, input[2])
       IN /\ Truthy(input[1])
          /\ store' = save_monitoring_data(concat(df_monitor[s], e))
          /\ audit' = Written(store')
  /\ pc' = [pc EXCEPT ![s] = "idle"]
  /\ df_monitor' = [df_monitor EXCEPT ![s] = <<>>]
  /\ UNCHANGED <<calc, runVars, active, call, seen, amon_df, new_entry>>

(* Lines 608-633: the unfiltered editor and its save button *)
SaveTable(s) ==
  /\ At(s, "dash")
  /\ df_monitor[s] # <<>>
  /\ \E deleted_rows \in RowChoices(df_monitor[s]) :
       LET edited_df == data_editor(df_monitor[s], deleted_rows)
       IN /\ store' = save_monitoring_data(edited_df)
          /\ audit' = Edited(s, df_monitor[s], deleted_rows, store')
  /\ pc' = [pc EXCEPT ![s] = "idle"]
  /\ df_monitor' = [df_monitor EXCEPT ![s] = <<>>]
  /\ UNCHANGED <<calc, runVars, active, call, seen, amon_df, new_entry>>

(* A run in which no button of the dashboard is pressed *)
ViewOnly(s) ==
  /\ At(s, "dash")
  /\ pc' = [pc EXCEPT ![s] = "idle"]
  /\ df_monitor' = [df_monitor EXCEPT ![s] = <<>>]
  /\ UNCHANGED <<calc, runVars, store, active, call, seen, amon_df, new_entry, audit>>

NextLedger ==
  \E s \in Sessions :
     \/ SendSucceeded(s)
     \/ AmonLoad(s)
     \/ AmonSave(s)
     \/ DashLoad(s)
     \/ SaveFiltered(s)
     \/ FormAdd(s)
     \/ SaveTable(s)
     \/ ViewOnly(s)

InitLedger == calc = Idle /\ store = NoFile /\ LedgerInit({"s1"})
InitRace == calc = Idle /\ store = NoFile /\ LedgerInit(Sessions)

\* One operator's session working on the ledger
SpecLedger == InitLedger /\ [][NextLedger]_vars
\* Two sessions working on the ledger at once
SpecRace == InitRace /\ [][NextLedger]_vars

(* C5: an entry leaves the persisted ledger only when the operator deletes  *)
(* its row in the editor: every entry that has been in the store and that   *)
(* the operator has not deleted is still in the store, also after a save    *)
(* made under a name or status filter.                                      *)
C5_RemovedOnlyByDeletion ==
  audit.written \subseteq (audit.deleted \cup Range(load_monitoring_data(store)))

(* C10: add_to_monitoring is a load, a concat and a save with no lock.  A   *)
(* save that no other write has come before since the session's load leaves *)
(* the store equal to the previous contents followed by the new entry; with *)
(* two sessions a lost update is reachable (C10_LostUpdate).                *)
C10_SingleWriterAppends ==
  [][\A s \in active :
        (pc[s] = "amon_save" /\ pc'[s] # "amon_save" /\ seen[s] = store)
          => load_monitoring_data(store')
               = load_monitoring_data(store) \o <<new_entry[s]>>]_vars

\* An entry that was saved, that no editor save deleted or hid, is not in the store
C10_LostUpdate ==
  /\ \E e \in audit.written :
        e \notin (audit.deleted \cup audit.hidden \cup Range(load_monitoring_data(store)))
  /\ \A s \in active : pc[s] = "idle"

----------------------------------------------------------------------------
(* Pure computations, each verified over bounded inputs *)

Seqs(S, n) == UNION {[1..k -> S] : k \in 0..n}

HEADERS ==
  { <<"L~","i~","c~","e~","v~","o~","j~"," ","s~","ch~","e~","t~">>,
    <<"F~",".","I~",".","O~",".">>,
    <<"D~","o~","l~","g~",","," ","r~","u~","b~">>,
    <<"M","a","i","l">>,
    <<"E","-","M","a","i","l">>,
    <<" ","D","E","B","T","_","D","a","t","e">>,
    <<"K~","v~","a~","r~","t~","a~","l~">> }

InitMap ==
  /\ calc \in {[op |-> "auto_map", done |-> FALSE, in |-> hs, out |-> <<>>] :
                 hs \in Seqs(HEADERS, MaxCols)}
  /\ store = NoFile
  /\ LedgerInit({})

AutoMap ==
  /\ calc.op = "auto_map" /\ ~calc.done
  /\ calc' = [calc EXCEPT !.done = TRUE, !.out = auto_map_columns(calc.in)]
  /\ UNCHANGED <<store, appVars>>

NextMap == AutoMap

SpecMap == InitMap /\ [][NextMap]_vars

\* The columns of df (in order) whose cleaned text contains a cleaned alias of field
Hits(columns, field) ==
  {i \in 1..Len(columns) :
     \E k \in 1..Len(ALIASES[field]) :
        Contains(clean_col(columns[i]), clean_col(ALIASES[field][k]))}

\* C8: every field is mapped to the first column, in the table's column order, whose
\* cleaned header contains any cleaned alias of the field, whatever the alias's place
\* in the alias list, and to None when no column matches.
C8_FirstColumnWins ==
  (calc.op = "auto_map" /\ calc.done) =>
     \A field \in DOMAIN ALIASES :
        LET hits == Hits(calc.in, field)
        IN calc.out[field] = IF hits = {} THEN NoneVal ELSE calc.in[Min(hits)]

\* C8 witness: a later column matches an earlier alias than the first matching column
\* does, the first column is chosen all the same, one column serves two fields and
\* some field is left unmapped.
C8_Witness ==
  /\ calc.op = "auto_map" /\ calc.done
  /\ \E field \in DOMAIN ALIASES :
       \E i, j \in Hits(calc.in, field) :
          /\ i < j /\ calc.in[i] # calc.in[j] /\ calc.out[field] = calc.in[i]
          /\ \E k \in 1..Len(ALIASES[field]) :
               /\ Contains(clean_col(calc.in[j]), clean_col(ALIASES[field][k]))
               /\ \A k2 \in 1..k : ~Contains(clean_col(calc.in[i]), clean_col(ALIASES[field][k2]))
  /\ \E f1, f2 \in DOMAIN ALIASES : f1 # f2 /\ calc.out[f1] = calc.out[f2] /\ calc.out[f1] # NoneVal
  /\ \E f \in DOMAIN ALIASES : calc.out[f] = NoneVal

----------------------------------------------------------------------------
(* Debtor selection over bounded tables *)

TableRow(fio, debt, email) == (COL_FIO :> fio) @@ (COL_DEBT :> debt) @@ (COL_EMAIL :> email)

\* Debt cells: 100, 0, -5, "200,50", "1 234,56", "1<NBSP>000", "", "abc", "1-2", "-",
\* "-3.5 r", and a missing value
DEBT_CELLS ==
  { CellNum(100, 0), CellNum(0, 0), CellNum(0 - 5, 0),
    CellStr(<<"2","0","0",",","5","0">>),
    CellStr(<<"1"," ","2","3","4",",","5","6">>),
    CellStr(<<"1","NBSP","0","0","0">>),
    CellStr(<<>>),
    CellStr(<<"a","b","c">>),
    CellStr(<<"1","-","2">>),
    CellStr(<<"-">>),
    CellStr(<<"-","3",".","5"," ","r">>),
    CellNaN }

InitSelect ==
  /\ calc \in {[op |-> "select", done |-> FALSE, in |-> rows, out |-> <<>>] :
                 rows \in Seqs({TableRow(CellStr(IVANOV), c, CellStr(ADDR_IVANOV)) :
                                  c \in DEBT_CELLS}, MaxTable)}
  /\ store = NoFile
  /\ LedgerInit({})

Select ==
  /\ calc.op = "select" /\ ~calc.done
  /\ calc' = [calc EXCEPT !.done = TRUE, !.out = SelectDebtors(DataFrame(calc.in), COL_DEBT)]
  /\ UNCHANGED <<store, appVars>>

NextSelect == Select

SpecSelect == InitSelect /\ [][NextSelect]_vars

\* A debt cell with no digit in it, or none at all
Unparseable(c) == c.k = "nan" \/ (c.k = "str" /\ \A i \in 1..Len(c.s) : ~IsDigit(c.s[i]))

\* C7: the debtors are exactly the rows whose normalized debt is > 0, in source order,
\* each with its normalized debt; a missing or unparseable cell normalizes to 0 and its
\* row is left out.
C7_SelectsPositiveInOrder ==
  (calc.op = "select" /\ calc.done) =>
     LET rows == calc.in
         out == calc.out
     IN /\ \A j \in 1..(Len(out) - 1) : out[j].index < out[j + 1].index
        /\ {out[j].index + 1 : j \in 1..Len(out)} =
             {i \in 1..Len(rows) : Mant(to_number(rows[i][COL_DEBT])) > 0}
        /\ \A j \in 1..Len(out) :
             /\ out[j].row = rows[out[j].index + 1]
             /\ out[j].debt = to_number(rows[out[j].index + 1][COL_DEBT])
        /\ \A i \in 1..Len(rows) :
             Unparseable(rows[i][COL_DEBT]) =>
               /\ to_number(rows[i][COL_DEBT]) = Zero
               /\ \A j \in 1..Len(out) : out[j].index + 1 # i

\* C7 witness: a table whose first and last rows are debtors, the last from the text
\* "200,50" (200.5), with an unparseable cell between them.
C7_Witness ==
  /\ calc.op = "select" /\ calc.done
  /\ Len(calc.in) = 3 /\ Len(calc.out) = 2
  /\ Unparseable(calc.in[2][COL_DEBT])
  /\ calc.in[3][COL_DEBT] = CellStr(<<"2","0","0",",","5","0">>)
  /\ calc.out[2].index = 2 /\ calc.out[2].debt = Canon(2005, 1)
  /\ calc.out[1].debt = Canon(100, 0)

----------------------------------------------------------------------------
(* The ledger's save and load over bounded entry sets *)

ENTRIES ==
  { Entry(ts, IVANOV, Canon(100, 0), METHOD_EMAIL, STATUS_AUTO, SENT_TO \o ADDR_IVANOV) :
      ts \in NOW_TEXTS }
  \cup { Entry(ts, PETROV, Canon(2005, 1), METHOD_CALL, STATUS_PENDING, c) :
           ts \in NOW_TEXTS, c \in {<<>>, COMMENT_CALLED, <<"n","/","a">>} }

InitRoundTrip ==
  /\ calc \in {[op |-> "roundtrip", done |-> FALSE, in |-> df, out |-> <<>>] :
                 df \in Seqs(ENTRIES, MaxEntries) \ {<<>>}}
  /\ store = NoFile
  /\ LedgerInit({})

RoundTripSave ==
  /\ calc.op = "roundtrip" /\ ~calc.done /\ ~store.exists
  /\ store' = save_monitoring_data(calc.in)
  /\ UNCHANGED <<calc, appVars>>

RoundTripLoad ==
  /\ calc.op = "roundtrip" /\ ~calc.done /\ store.exists
  /\ calc' = [calc EXCEPT !.done = TRUE, !.out = load_monitoring_data(store)]
  /\ UNCHANGED <<store, appVars>>

NextRoundTrip == RoundTripSave \/ RoundTripLoad

SpecRoundTrip == InitRoundTrip /\ [][NextRoundTrip]_vars

\* C9: save(entries) followed by load() returns the entries saved: as many, in the
\* same order, every field value preserved, an empty comment included.
C9_RoundTrip ==
  (calc.op = "roundtrip" /\ calc.done) => calc.out = calc.in

----------------------------------------------------------------------------
(* The dispatch pipeline: one script run from the upload to the end of the  *)
(* batch (lines 226-514)                                                    *)

\* Bounds of the dispatch
MaxRows == 2      \* rows of an uploaded table

\* The session that dispatches
Dispatcher == "s1"

\* The default of st.text_area at line 317, and a template with an unknown field
DEFAULT_TEMPLATE ==
  <<"U~","v~","a~","zh~","a~","e~","m~","y~","j~","(","a~","ya~",")",","," ","{","F",
    "I","O","}",","," ","u~"," ","V~","a~","s~"," ","o~","b~","r~","a~","z~","o~","v~",
    "a~","l~","a~","s~","soft~"," ","z~","a~","d~","o~","l~","zh~","e~","n~","n~","o~",
    "s~","t~","soft~"," ","p~","o~"," ","k~","o~","m~","m~","u~","n~","a~","l~","soft~",
    "n~","y~","m~"," ","p~","l~","a~","t~","e~","zh~","a~","m~"," ","v~"," ","r~","a~",
    "z~","m~","e~","r~","e~"," ","{","D","E","B","T","}",".","LF","LF","D~","a~","t~",
    "a~"," ","f~","o~","r~","m~","i~","r~","o~","v~","a~","n~","i~","ya~",":"," ","{",
    "T","O","D","A","Y","}","LF","N~","e~","o~","b~","h~","o~","d~","i~","m~","o~"," ",
    "o~","p~","l~","a~","t~","i~","t~","soft~"," ","d~","o~"," ","{","D","U","E","}",
    ".">>
BAD_TEMPLATE ==
  <<"{","F","I","O","}",":"," ","{","D","E","B","T","}"," ","{","A","C","C","O","U","N",
    "T","}">>

\* today.strftime("%d.%m.%Y") and due.strftime("%d.%m.%Y"), due = today + 31 days
TODAY ==
  <<"0","1",".","1","1",".","2","0","2","6">>
DUE ==
  <<"0","2",".","1","2",".","2","0","2","6">>

\* Texts of the log (lines 438-492); SMTP_ERROR stands for str(e) of a send that raised
LOG_OK ==
  <<"O","K">>
LOG_DRY_RUN ==
  <<"O","K"," ","(","d","r","y","-","r","u","n",")">>
LOG_ERROR ==
  <<"O~","sh~","i~","b~","k~","a~">>
DRY_RUN_COMMENT ==
  <<"T~","e~","s~","t~"," ","(","n~","e~"," ","o~","t~","p~","r~","a~","v~","l~","e~",
    "n~","o~",")">>
BAD_EMAIL ==
  <<"N~","e~","k~","o~","r~","r~","e~","k~","t~","n~","y~","j~"," ","E","m","a","i","l",
    " ","a~","d~","r~","e~","s~">>
SMTP_ERROR ==
  <<"C","o","n","n","e","c","t","i","o","n"," ","r","e","f","u","s","e","d">>

\* Texts the operator types and the table holds
SMTP_HOST ==
  <<"s","m","t","p",".","x",".","r","u">>
SMTP_USER ==
  <<"u","k","@","x",".","r","u">>
SMTP_PASSWORD ==
  <<"s","e","c","r","e","t">>
SIDOROV ==
  <<"S","i","d","o","r","o","v">>
ADDR_SIDOROV ==
  <<"s","i","d","@","x",".","r","u">>

\* str(x) of a table cell: a missing value prints as nan, a float by its repr
str(cell) ==
  CASE cell.k = "str" -> cell.s
    [] cell.k = "nan" -> <<"n","a","n">>
    [] cell.k = "num" -> float_repr(cell.v)

\* Digits in groups of three from the right, as the "," of a format spec groups them
RECURSIVE Grouped(_, _)
Grouped(ds, sep) ==
  IF Len(ds) <= 3 THEN ds
  ELSE Grouped(SubSeq(ds, 1, Len(ds) - 3), sep) \o sep \o SubSeq(ds, Len(ds) - 2, Len(ds))

\* x to the nearest hundredth, in hundredths; a tie goes to the even one
Hundredths(x) ==
  IF Expo(x) <= 2 THEN Mant(x) * Pow10(2 - Expo(x))
  ELSE LET unit == Pow10(Expo(x) - 2)
           q == Mant(x) \div unit
           r == Mant(x) % unit
       IN IF 2 * r > unit \/ (2 * r = unit /\ q % 2 = 1) THEN q + 1 ELSE q

\* format_money (lines 351-355), for x >= 0: f"{x:,.2f}" with "," replaced by " "
format_money(x) ==
  LET cents == Hundredths(x)
      text == Grouped(DigitsOf(cents \div 100), <<",">>) \o <<".">>
                \o ZeroPad(DigitsOf(cents % 100), 2)
  IN replace(text, ",", <<" ">>)

\* Where the first of the characters is in the text; 0 when there is none
First(t, cs) ==
  LET at == {j \in DOMAIN t : t[j] \in cs}
  IN IF at = {} THEN 0 ELSE CHOOSE j \in at : \A k \in at : j <= k

\* str.format(**kw): [ok, text]; ok is FALSE where format raises.  "{{" and
\* "}}" are literal braces; a field is a name of kw (no index, attribute,
\* conversion or format spec).
RECURSIVE format(_, _)
format(t, kw) ==
  LET b == First(t, {"{", "}"})
      u == SubSeq(t, b, Len(t))
      close == First(u, {"}"})
      name == SubSeq(u, 2, close - 1)
      Then(text, rest) == [ok |-> rest.ok, text |-> SubSeq(t, 1, b - 1) \o text \o rest.text]
  IN IF b = 0 THEN [ok |-> TRUE, text |-> t]
     ELSE IF Len(u) >= 2 /\ u[2] = u[1] THEN Then(<<u[1]>>, format(SubSeq(u, 3, Len(u)), kw))
     ELSE IF u[1] = "}" \/ close = 0 \/ name \notin DOMAIN kw
          THEN [ok |-> FALSE, text |-> <<>>]
     ELSE Then(kw[name], format(SubSeq(u, close + 1, Len(u)), kw))

\* make_body (lines 357-363)
make_body(template, fio, debt) ==
  format(template,
         (<<"F","I","O">> :> fio) @@ (<<"D","E","B","T">> :> format_money(debt))
           @@ (<<"T","O","D","A","Y">> :> TODAY) @@ (<<"D","U","E">> :> DUE))

\* The rows an uploaded table is made of: a debtor, a debtor whose name cell has
\* a leading blank and whose address has no "@", and a row with no debt
TABLE_ROWS ==
  { TableRow(CellStr(IVANOV), CellNum(100, 0), CellStr(ADDR_IVANOV)),
    TableRow(CellStr(<<" ">> \o PETROV), CellStr(<<"2","0","0",",","5","0">>),
             CellStr(ADDR_NO_AT)),
    TableRow(CellStr(SIDOROV), CellNum(0, 0), CellStr(ADDR_SIDOROV)) }

\* The tables read_table returns: rows that differ from each other
TABLES == {t \in Seqs(TABLE_ROWS, MaxRows) : \A i, j \in DOMAIN t : i # j => t[i] # t[j]}

\* col_map after the operator's overrides, for the fields the pipeline reads
ColMap(fio, debt, email) == ("FIO" :> fio) @@ ("Summa dolga" :> debt) @@ ("Email" :> email)
COL_MAPS ==
  { ColMap(COL_FIO, COL_DEBT, COL_EMAIL), ColMap(COL_FIO, COL_DEBT, NoneVal),
    ColMap(NoneVal, COL_DEBT, COL_EMAIL), ColMap(COL_FIO, NoneVal, COL_EMAIL) }

\* What the operator types into the common address field
COMMON_INPUTS == {<<" ">> \o ADDR_COMMON, <<>>, <<" ">>}

TEMPLATES == {DEFAULT_TEMPLATE, BAD_TEMPLATE}

Smtp(host, from, user, password) ==
  [smtp_host |-> host, from_addr |-> from, smtp_user |-> user, smtp_password |-> password]
SMTP_CONFIGS ==
  { Smtp(SMTP_HOST, SMTP_USER, SMTP_USER, SMTP_PASSWORD), Smtp(<<>>, SMTP_USER, <<>>, <<>>),
    Smtp(SMTP_HOST, <<>>, <<>>, <<>>), Smtp(SMTP_HOST, SMTP_USER, SMTP_USER, <<>>) }

\* Line 262
missing_min(col_map) == {f \in {"FIO", "Summa dolga"} : ~Truthy(col_map[f])}

\* A plausible slip: the common address is not checked
RecipientErrorPerRowOnly(mode, col_map, text) ==
  IF mode = MODE_PER_ROW /\ ~Truthy(col_map["Email"]) THEN "no_email_column" ELSE "none"

\* Lines 278-286: the check of the recipient mode; text is the common address as typed
recipient_error(mode, col_map, text) ==
  IF mode = MODE_PER_ROW
  THEN (IF ~Truthy(col_map["Email"]) THEN "no_email_column" ELSE "none")
  ELSE (IF ~Truthy(strip(text)) THEN "no_common_email" ELSE "none")

\* A plausible slip: the password is not checked
MissingNoPassword(smtp) ==
  (IF ~Truthy(smtp.smtp_host) THEN {"SMTP host"} ELSE {})
    \cup (IF ~Truthy(smtp.from_addr) THEN {"From"} ELSE {})

\* Lines 386-390: missing
missing(smtp) ==
  (IF ~Truthy(smtp.smtp_host) THEN {"SMTP host"} ELSE {})
    \cup (IF ~Truthy(smtp.from_addr) THEN {"From"} ELSE {})
    \cup (IF Truthy(smtp.smtp_user) /\ ~Truthy(smtp.smtp_password)
          THEN {"SMTP password"} ELSE {})

\* The widgets a run has read when it reaches the send button (line 378)
Widgets(df_raw, col_map, mode, text, template, smtp, dry_run) ==
  [uploaded |-> TRUE, df_raw |-> df_raw, col_map |-> col_map, mode |-> mode,
   common_email |-> IF mode = MODE_COMMON THEN strip(text) ELSE NoneVal,
   template |-> template, smtp |-> smtp, dry_run |-> dry_run, send_btn |-> FALSE]

\* The common address field exists in the common mode only
Typed(mode) == IF mode = MODE_COMMON THEN COMMON_INPUTS ELSE {<<>>}

\* Lines 415 and 371: fio
Fio(w, r) == strip(str(r.row[w.col_map["FIO"]]))

\* Lines 421-425: to_addr
ToAddr(w, r) ==
  IF w.mode = MODE_PER_ROW
  THEN (IF Truthy(w.col_map["Email"]) THEN strip(str(r.row[w.col_map["Email"]])) ELSE <<>>)
  ELSE w.common_email

\* A plausible slip: no preview is composed, the letters are composed row by row only
PreviewSkipped(w, selected) == FALSE

\* Lines 368-372: the preview composes the first debtor's letter
PreviewRaises(w, selected) ==
  selected # <<>> /\ ~make_body(w.template, Fio(w, selected[1]), selected[1].debt).ok

\* A plausible slip: the dry run is not looked at
RowCaseNoDryRun(w, to_addr) == IF "@" \notin Range(to_addr) THEN "invalid" ELSE "send"

\* Lines 433-447: what the try block does with the row
row_case(w, to_addr) ==
  IF "@" \notin Range(to_addr) THEN "invalid"
  ELSE IF w.dry_run THEN "dry_run" ELSE "send"

LogRow(fio, to_addr, debt, status, comment) ==
  [fio |-> fio, email |-> to_addr, debt |-> debt, status |-> status, comment |-> comment]

\* A plausible slip: the handler swallows the exception
ExceptSilently(rows, fio, to_addr, debt, e) == rows

\* Lines 483-492: the except branch's log row
except_log(rows, fio, to_addr, debt, e) ==
  Append(rows, LogRow(fio, to_addr, debt, LOG_ERROR, e))

\* A plausible slip: the entry is filed as one still awaited
MonitoringCallPending(fio, debt, to_addr) ==
  [fio |-> fio, debt |-> debt, method |-> METHOD_EMAIL, status |-> STATUS_PENDING,
   comment |-> SENT_TO \o to_addr, ret |-> "appended"]

\* Lines 460-466: the arguments of add_to_monitoring
monitoring_call(fio, debt, to_addr) ==
  [fio |-> fio, debt |-> debt, method |-> METHOD_EMAIL, status |-> STATUS_AUTO,
   comment |-> SENT_TO \o to_addr, ret |-> "appended"]

\* A new script run may begin: the session's last run is over
Fresh == At(Dispatcher, "idle")

\* A script run begins with fresh locals; it reads the widgets, selects the
\* debtors and either stops (why) or goes on to the place
Begin(widgets, selected, why, place) ==
  /\ ui' = widgets
  /\ debtors' = selected
  /\ idx' = 0
  /\ log_rows' = <<>>
  /\ ok' = 0
  /\ fail' = 0
  /\ progress' = <<0, 0>>
  /\ effects' = <<>>
  /\ ledger0' = store
  /\ halt' = why
  /\ pc' = [pc EXCEPT ![Dispatcher] = place]
  /\ UNCHANGED <<calc, store, active, call, seen, amon_df, new_entry, df_monitor, audit>>

(* Lines 226-232: no file is uploaded *)
StopNoFile ==
  /\ Fresh
  /\ Begin(NoWidgets, <<>>, "no_file", "stopped")

(* Lines 234-238: read_table raises *)
StopReadError ==
  /\ Fresh
  /\ Begin([NoWidgets EXCEPT !.uploaded = TRUE], <<>>, "read_error", "stopped")

(* Lines 244-265: the full name or the debt amount is not mapped *)
StopMissingMin ==
  /\ Fresh
  /\ \E df_raw \in TABLES, col_map \in COL_MAPS :
       /\ missing_min(col_map) # {}
       /\ Begin([NoWidgets EXCEPT !.uploaded = TRUE, !.df_raw = df_raw, !.col_map = col_map],
                <<>>, "missing_min", "stopped")

(* Lines 269-286: the recipient mode lacks its column or its address *)
StopRecipient ==
  /\ Fresh
  /\ \E df_raw \in TABLES, col_map \in COL_MAPS, mode \in {MODE_PER_ROW, MODE_COMMON} :
       /\ missing_min(col_map) = {}
       /\ \E text \in Typed(mode) :
            /\ recipient_error(mode, col_map, text) # "none"
            /\ Begin([NoWidgets EXCEPT !.uploaded = TRUE, !.df_raw = df_raw,
                                       !.col_map = col_map, !.mode = mode,
                                       !.common_email =
                                          IF mode = MODE_COMMON THEN strip(text) ELSE NoneVal],
                     <<>>, recipient_error(mode, col_map, text), "stopped")

\* Lines 289-378 for a run that passes the checks of lines 262-286: the debtors are
\* selected, the widgets are read, the preview is composed.  How(w, selected) is the
\* rest of the run.
Reach(How(_, _)) ==
  \E df_raw \in TABLES, col_map \in COL_MAPS, mode \in {MODE_PER_ROW, MODE_COMMON} :
     /\ missing_min(col_map) = {}
     /\ \E text \in Typed(mode) :
          /\ recipient_error(mode, col_map, text) = "none"
          /\ LET selected == SelectDebtors(DataFrame(df_raw), col_map["Summa dolga"])
             IN \E template \in TEMPLATES, smtp \in SMTP_CONFIGS, dry_run \in BOOLEAN :
                  How(Widgets(df_raw, col_map, mode, text, template, smtp, dry_run), selected)

(* Lines 367-372: composing the preview raises, the run ends there *)
StopTemplate ==
  /\ Fresh
  /\ LET How(w, selected) ==
           /\ PreviewRaises(w, selected)
           /\ Begin(w, selected, "template_error", "stopped")
     IN Reach(How)

(* Line 378-380: the send button is not pressed *)
NoSend ==
  /\ Fresh
  /\ LET How(w, selected) ==
           /\ ~PreviewRaises(w, selected)
           /\ Begin(w, selected, "none", "shown")
     IN Reach(How)

(* Lines 380-383: send is pressed and there are no debtors *)
StopNoDebtors ==
  /\ Fresh
  /\ LET How(w, selected) ==
           /\ ~PreviewRaises(w, selected)
           /\ Len(selected) = 0
           /\ Begin([w EXCEPT !.send_btn = TRUE], selected, "no_debtors", "stopped")
     IN Reach(How)

(* Lines 385-394: a real run lacks part of the SMTP settings *)
StopMissingConfig ==
  /\ Fresh
  /\ LET How(w, selected) ==
           /\ ~PreviewRaises(w, selected)
           /\ Len(selected) # 0
           /\ ~w.dry_run /\ missing(w.smtp) # {}
           /\ Begin([w EXCEPT !.send_btn = TRUE], selected, "missing_config", "stopped")
     IN Reach(How)

\* The rows of a batch that are sent for real
ToSend(w, selected) == {i \in DOMAIN selected : row_case(w, ToAddr(w, selected[i])) = "send"}

(* Lines 396-407: the batch begins.  A batch is begun only where the ledger *)
(* of the model has room for the entries of the rows it sends.              *)
StartBatch ==
  /\ Fresh
  /\ LET How(w, selected) ==
           /\ ~PreviewRaises(w, selected)
           /\ Len(selected) # 0
           /\ w.dry_run \/ missing(w.smtp) = {}
           /\ Len(store.rows) + Cardinality(ToSend(w, selected)) <= MaxLedger
           /\ Begin([w EXCEPT !.send_btn = TRUE], selected, "none", "loop")
     IN Reach(How)

\* The loop stands before row idx + 1
InLoop == At(Dispatcher, "loop") /\ idx < Len(debtors)

\* A plausible slip: the progress bar is left as it was
AdvanceWithoutProgress ==
  /\ idx' = idx + 1
  /\ progress' = progress

\* The row has been dealt with: lines 495-496 and the loop's step
Advance ==
  /\ idx' = idx + 1
  /\ progress' = <<idx + 1, Len(debtors)>>

(* Lines 410-445 and 483-496: a row that is not sent.  make_body is called  *)
(* outside the try block: if it raises, the run ends.                       *)
ProcessRow ==
  /\ InLoop
  /\ LET r == debtors[idx + 1]
         fio == Fio(ui, r)
         to_addr == ToAddr(ui, r)
     IN IF ~make_body(ui.template, fio, r.debt).ok
        THEN /\ pc' = [pc EXCEPT ![Dispatcher] = "stopped"]
             /\ halt' = "template_error"
             /\ UNCHANGED <<idx, progress, log_rows, ok, fail>>
        ELSE /\ row_case(ui, to_addr) \in {"invalid", "dry_run"}
             /\ IF row_case(ui, to_addr) = "invalid"
                THEN /\ fail' = fail + 1
                     /\ log_rows' = except_log(log_rows, fio, to_addr, r.debt, BAD_EMAIL)
                     /\ ok' = ok
                ELSE /\ ok' = ok + 1
                     /\ log_rows' = Append(log_rows, LogRow(fio, to_addr, r.debt, LOG_DRY_RUN,
                                                            DRY_RUN_COMMENT))
                     /\ fail' = fail
             /\ Advance
             /\ UNCHANGED <<pc, halt>>
  /\ UNCHANGED <<calc, store, active, call, seen, amon_df, new_entry, df_monitor, audit,
                 ui, debtors, effects, ledger0>>

\* The row is to be sent for real
Sending ==
  /\ InLoop
  /\ make_body(ui.template, Fio(ui, debtors[idx + 1]), debtors[idx + 1].debt).ok
  /\ row_case(ui, ToAddr(ui, debtors[idx + 1])) = "send"

(* Lines 448-458 and 483-496: send_email_smtp raises *)
SendRaises ==
  /\ Sending
  /\ LET r == debtors[idx + 1]
     IN /\ effects' = Append(effects, <<"send", idx + 1>>)
        /\ fail' = fail + 1
        /\ log_rows' = except_log(log_rows, Fio(ui, r), ToAddr(ui, r), r.debt, SMTP_ERROR)
  /\ Advance
  /\ UNCHANGED <<calc, store, active, pc, call, seen, amon_df, new_entry, df_monitor, audit,
                 ui, debtors, ok, ledger0, halt>>

(* Lines 448-466: send_email_smtp returns and add_to_monitoring is called *)
SendReturns ==
  /\ Sending
  /\ LET r == debtors[idx + 1]
     IN /\ effects' = Append(effects, <<"send", idx + 1>>)
        /\ call' = [call EXCEPT ![Dispatcher] =
                      monitoring_call(Fio(ui, r), r.debt, ToAddr(ui, r))]
  /\ pc' = [pc EXCEPT ![Dispatcher] = "amon_load"]
  /\ UNCHANGED <<calc, store, active, seen, amon_df, new_entry, df_monitor, audit,
                 ui, debtors, idx, log_rows, ok, fail, progress, ledger0, halt>>

(* Lines 468-481 and 495-496: add_to_monitoring has returned; the pacing    *)
(* sleep, then the row is logged                                            *)
RowAppended ==
  /\ At(Dispatcher, "appended")
  /\ LET r == debtors[idx + 1]
     IN /\ effects' = Append(effects, <<"sleep", idx + 1>>)
        /\ ok' = ok + 1
        /\ log_rows' = Append(log_rows, LogRow(Fio(ui, r), ToAddr(ui, r), r.debt, LOG_OK, <<>>))
  /\ Advance
  /\ pc' = [pc EXCEPT ![Dispatcher] = "loop"]
  /\ UNCHANGED <<calc, store, active, call, seen, amon_df, new_entry, df_monitor, audit,
                 ui, debtors, fail, ledger0, halt>>

(* Lines 498-514: the loop is over, the log is shown *)
FinishBatch ==
  /\ At(Dispatcher, "loop")
  /\ idx = Len(debtors)
  /\ pc' = [pc EXCEPT ![Dispatcher] = "done"]
  /\ UNCHANGED <<calc, store, active, call, seen, amon_df, new_entry, df_monitor, audit,
                 runVars>>

(* The script run is over: the page stays as it is until the next          *)
(* interaction, and the next run begins with fresh locals                   *)
EndRun ==
  /\ Dispatcher \in active
  /\ pc[Dispatcher] \in {"stopped", "shown", "done"}
  /\ Begin(NoWidgets, <<>>, "none", "idle")

\* An entry the operator added by hand before, with no comment
PRIOR_ENTRY == Entry(<<"3","1",".","1","0",".","2","0","2","6"," ","0","9",":","0","0">>,
                     SIDOROV, Canon(50, 0), METHOD_CALL, STATUS_PENDING, <<>>)

Init ==
  /\ calc = Idle
  /\ store \in {NoFile, save_monitoring_data(<<PRIOR_ENTRY>>)}
  /\ LedgerInit({Dispatcher})

Next ==
  \/ StopNoFile
  \/ StopReadError
  \/ StopMissingMin
  \/ StopRecipient
  \/ StopTemplate
  \/ NoSend
  \/ StopNoDebtors
  \/ StopMissingConfig
  \/ StartBatch
  \/ ProcessRow
  \/ SendRaises
  \/ SendReturns
  \/ AmonLoad(Dispatcher)
  \/ AmonSave(Dispatcher)
  \/ RowAppended
  \/ FinishBatch
  \/ EndRun

\* The dispatch pipeline, run after run, by one session
Spec == Init /\ [][Next]_vars

----------------------------------------------------------------------------
(* Properties of the dispatch pipeline *)

\* The run is in its batch: the loop has begun
InBatch == pc[Dispatcher] \in {"loop", "amon_load", "amon_save", "appended", "done"}

\* No row has been processed, nothing has been sent, the ledger is as it was
Untouched == idx = 0 /\ log_rows = <<>> /\ effects = <<>> /\ store = ledger0

\* How many times the mail send was invoked for row i
Sends(i) == Cardinality({k \in DOMAIN effects : effects[k] = <<"send", i>>})

(* C1: per-row fault isolation.  In a batch the rows are processed once     *)
(* each in the order of the debtor list: the outcomes recorded are those of *)
(* the first idx rows, in order, one per row; the mail send is invoked at   *)
(* most once per row and in row order; after a row, failed or not, the     *)
(* letter of the next row composes and the row falls to one of the loop's   *)
(* branches; no run stops once a row is processed, and the batch ends with  *)
(* one outcome per debtor.                                                  *)
C1_RowIsolation ==
  /\ pc[Dispatcher] = "stopped" => (idx = 0 /\ log_rows = <<>>)
  /\ InBatch =>
    /\ idx <= Len(debtors)
    /\ Len(log_rows) = idx
    /\ \A i \in 1..idx :
          /\ log_rows[i].fio = Fio(ui, debtors[i])
          /\ log_rows[i].debt = debtors[i].debt
          /\ log_rows[i].status \in {LOG_OK, LOG_DRY_RUN, LOG_ERROR}
    /\ \A i \in DOMAIN debtors : Sends(i) <= 1
    /\ \A k \in DOMAIN effects :
          /\ effects[k][2] <= idx + 1
          /\ \A j \in 1..(k - 1) : effects[j][2] <= effects[k][2]
    /\ (pc[Dispatcher] = "loop" /\ idx < Len(debtors))
          => /\ make_body(ui.template, Fio(ui, debtors[idx + 1]), debtors[idx + 1].debt).ok
             /\ row_case(ui, ToAddr(ui, debtors[idx + 1])) \in {"invalid", "dry_run", "send"}
    /\ pc[Dispatcher] = "done" => idx = Len(debtors)

\* A batch has ended in which the first row failed and the second was sent
C1_Witness ==
  /\ pc[Dispatcher] = "done"
  /\ Len(log_rows) = 2
  /\ log_rows[1].status = LOG_ERROR
  /\ log_rows[2].status = LOG_OK
  /\ Sends(1) = 0 /\ Sends(2) = 1

(* C2: a dry run has no external effect.  In a batch with dry_run set the   *)
(* mail send is never invoked, no pacing sleep is made, add_to_monitoring   *)
(* is never entered and the ledger file is as it was; every row whose       *)
(* address holds "@" has the dry-run outcome.                               *)
C2_DryRunNoEffect ==
  (InBatch /\ ui.dry_run) =>
    /\ effects = <<>>
    /\ store = ledger0
    /\ pc[Dispatcher] \in {"loop", "done"}
    /\ \A i \in DOMAIN log_rows :
          /\ log_rows[i].email = ToAddr(ui, debtors[i])
          /\ "@" \in Range(log_rows[i].email) => log_rows[i].status = LOG_DRY_RUN

\* A dry run over two debtors to a common address has ended, with no SMTP host set
C2_Witness ==
  /\ pc[Dispatcher] = "done"
  /\ ui.dry_run
  /\ ui.mode = MODE_COMMON
  /\ ui.smtp.smtp_host = <<>>
  /\ Len(log_rows) = 2
  /\ \A i \in DOMAIN log_rows : log_rows[i].status = LOG_DRY_RUN

\* The outcomes of the rows that were sent
Sent == LET IsOk(r) == r.status = LOG_OK IN SelectSeq(log_rows, IsOk)

(* C3: the ledger grows only by real, successful sends.  Between the rows   *)
(* of a real batch and at its end the ledger reads as it read before the    *)
(* batch, followed by one entry per row whose outcome is OK, in row order,  *)
(* with that row's name and debt, method E-mail and the auto-delivered      *)
(* status; rows that failed add nothing.                                    *)
C3_LedgerGrowsBySuccesses ==
  (pc[Dispatcher] \in {"loop", "done"} /\ ~ui.dry_run) =>
    LET before == load_monitoring_data(ledger0)
        after == load_monitoring_data(store)
    IN /\ Len(after) = Len(before) + Len(Sent)
       /\ SubSeq(after, 1, Len(before)) = before
       /\ \A k \in DOMAIN Sent :
             LET e == after[Len(before) + k]
             IN /\ e.fio = Sent[k].fio
                /\ e.debt = Sent[k].debt
                /\ e.method = METHOD_EMAIL
                /\ e.status = STATUS_AUTO

\* A real batch has ended with a failed row and a sent row, the ledger had an entry before
C3_Witness ==
  /\ pc[Dispatcher] = "done"
  /\ ~ui.dry_run
  /\ load_monitoring_data(ledger0) # <<>>
  /\ Len(Sent) = 1
  /\ \E i \in DOMAIN log_rows : log_rows[i].status = LOG_ERROR
  /\ Len(load_monitoring_data(store)) = Len(load_monitoring_data(ledger0)) + 1

(* C4: the pre-flight checks are fatal and come before any row.  With the   *)
(* send button pressed, if there is no debtor, or the run is real and the   *)
(* SMTP host is empty, the sender is empty or a login has no password, the  *)
(* run is stopped with no row processed, no outcome, no send and the ledger *)
(* as it was.  A dry run is not stopped for its SMTP settings: with debtors *)
(* it goes into the batch.                                                  *)
C4_PreflightFatal ==
  LET lacking == \/ ui.smtp.smtp_host = <<>>
                 \/ ui.smtp.from_addr = <<>>
                 \/ (ui.smtp.smtp_user # <<>> /\ ui.smtp.smtp_password = <<>>)
  IN /\ (ui.send_btn /\ (Len(debtors) = 0 \/ (~ui.dry_run /\ lacking)))
          => (pc[Dispatcher] = "stopped" /\ Untouched)
     /\ (ui.send_btn /\ ui.dry_run /\ Len(debtors) > 0) => InBatch
     /\ halt = "missing_config" => ~ui.dry_run

\* A real run with debtors was stopped for a login without a password
C4_Witness ==
  /\ pc[Dispatcher] = "stopped"
  /\ ui.send_btn /\ ~ui.dry_run
  /\ Len(debtors) > 0
  /\ ui.smtp.smtp_host # <<>> /\ ui.smtp.from_addr # <<>>
  /\ ui.smtp.smtp_user # <<>> /\ ui.smtp.smtp_password = <<>>

(* C6: dispatch cannot start without the required mapping.  If the name or  *)
(* the debt field is not mapped, or the per-row mode is chosen with the     *)
(* Email field not mapped, or the common mode with an empty common address, *)
(* the run is stopped before the debtors are selected: no debtor list, no   *)
(* outcome, no send, the ledger as it was.                                  *)
C6_NoDispatchWithoutMapping ==
  LET unmapped == \/ ui.col_map["FIO"] = NoneVal
                  \/ ui.col_map["Summa dolga"] = NoneVal
                  \/ (ui.mode = MODE_PER_ROW /\ ui.col_map["Email"] = NoneVal)
                  \/ (ui.mode = MODE_COMMON /\ ui.common_email = <<>>)
  IN (ui.uploaded /\ unmapped)
       => (pc[Dispatcher] = "stopped" /\ debtors = <<>> /\ ~ui.send_btn /\ Untouched)

\* A table with a debtor was uploaded, name and debt are mapped, and the run was
\* stopped for the common address left blank
C6_Witness ==
  /\ pc[Dispatcher] = "stopped"
  /\ ui.col_map["FIO"] # NoneVal /\ ui.col_map["Summa dolga"] # NoneVal
  /\ ui.mode = MODE_COMMON /\ ui.common_email = <<>>
  /\ SelectDebtors(DataFrame(ui.df_raw), ui.col_map["Summa dolga"]) # <<>>

(* C11: inter-send pacing.  In a batch every invocation of the mail send    *)
(* but the first comes right after a pacing sleep, whatever became of the   *)
(* rows before it, a send that raised included; and a pacing sleep is made  *)
(* only for a row that was sent, never for one rejected for its address.    *)
C11_PacedSends ==
  InBatch =>
    /\ \A k \in 2..Len(effects) : effects[k][1] = "send" => effects[k - 1][1] = "sleep"
    /\ \A k \in DOMAIN effects : effects[k][1] = "sleep" => Sends(effects[k][2]) = 1

(* C12: a template with an unknown field is an error that ends the run, not *)
(* a failed row.  Whenever the run has read such a template and has         *)
(* selected at least one debtor, it has stopped on the template error with  *)
(* the send button not reached: no row processed, no outcome of any status  *)
(* recorded, no send, and the ledger as it was.                             *)
C12_TemplateErrorStopsRun ==
  (ui.template = BAD_TEMPLATE /\ Len(debtors) > 0) =>
    /\ pc[Dispatcher] = "stopped"
    /\ halt = "template_error"
    /\ ~ui.send_btn
    /\ Untouched
    /\ \A i \in DOMAIN log_rows : log_rows[i].status # LOG_ERROR

\* A run over a table with debtors has stopped on the template with the unknown field
C12_Witness ==
  /\ pc[Dispatcher] = "stopped"
  /\ halt = "template_error"
  /\ ui.template = BAD_TEMPLATE
  /\ Len(debtors) > 0
  /\ ui.smtp.smtp_host # <<>>

\* How many outcomes recorded so far have one of the statuses
Outcomes(statuses) == Cardinality({i \in DOMAIN log_rows : log_rows[i].status \in statuses})

(* C13: progress and counts of the loop.  In a batch, once k rows have been *)
(* processed (k >= 1) the progress bar was last given k of total, k         *)
(* outcomes are recorded, ok counts the OK and dry-run outcomes, fail       *)
(* counts the failed ones, and ok + fail = k; at the end of the batch       *)
(* ok + fail is the number of debtors.                                      *)
C13_ProgressAndCounts ==
  InBatch =>
    /\ idx >= 1 => progress = <<idx, Len(debtors)>>
    /\ Len(log_rows) = idx
    /\ ok = Outcomes({LOG_OK, LOG_DRY_RUN})
    /\ fail = Outcomes({LOG_ERROR})
    /\ ok + fail = idx
    /\ pc[Dispatcher] = "done" => ok + fail = Len(debtors)

\* A real batch over two debtors has ended with one row sent and one failed
C13_Witness ==
  /\ pc[Dispatcher] = "done"
  /\ ~ui.dry_run
  /\ Len(debtors) = 2
  /\ progress = <<2, 2>>
  /\ ok = 1 /\ fail = 1

====
